---- MODULE Spec2Model ----
(***************************************************************************)
(* Model of public/media/content/movieee.py: a script that turns a list    *)
(* of still images into a slideshow video.  Each image becomes a clip with *)
(* a time-varying crop around a random zoom center (create_zoom_effect and *)
(* its closure make_frame); create_slideshow builds the clips in list      *)
(* order and concatenates them; the module body encodes the result and     *)
(* prints a success message.                                               *)
(*                                                                         *)
(* Arithmetic.  The script computes in Python floats.  The model computes  *)
(* the same expressions in exact rationals, each quantity being kept as an *)
(* integer numerator over a named denominator:                             *)
(*   zoom_factor      z  / ZoomDen                                         *)
(*   t                tn / TimeDen                                         *)
(*   scale            n  / ScaleDen(duration)                              *)
(*   random()         r  / RandSteps                                       *)
(*   zoom_x, zoom_y   n  / CenterDen                                       *)
(* int(x) is truncation toward zero, as in Python.  Float rounding is      *)
(* monotone, so the order relations shown here carry over to the floats;   *)
(* at t = 0 and t = D the quotient t/duration is exactly 0.0 and 1.0, so   *)
(* the boundary values are exact in floats as well.                        *)
(*                                                                         *)
(* The moviepy calls (ImageClip, fl, concatenate_videoclips,               *)
(* write_videofile) are modelled by their outcome: each returns or raises. *)
(***************************************************************************)
EXTENDS Integers, Sequences, FiniteSets, TLC

(* ---- bounds of the model ---- *)
MaxImages == 2      \* longest image list explored
MaxDuration == 3    \* durations 1..MaxDuration (and duration_per_image)
MaxZoom == 2        \* zoom magnitudes -1/ZoomDen .. MaxZoom/ZoomDen
RandSteps == 2      \* random() takes the values r/RandSteps
HalfRes == 1        \* time samples per half second

(* ---- module-level parameters of the script ---- *)
image_files ==
    << "apl1.jpg", "apl2.jpg", "apl3.jpg", "apl4.jpg",
       "apl5.jpg", "apl6.jpg", "apl7.jpg", "apl8.jpg",
       "apl9.jpg", "apl10.jpg", "apl11.jpg", "apl12.jpg" >>
output_video == "apl.mp4"
duration_per_image == 5
ZoomDen == 10
zoom_factor == 1        \* 0.1 = zoom_factor / ZoomDen
fps == 30
codec == "libx264"

(* random.uniform(0.3, 0.7): the end points in units of 1/UniformDen *)
UniformDen == 10
UniformLo == 3
UniformHi == 7

TimeDen == 2 * HalfRes
CenterDen == UniformDen * RandSteps

(* ---- inputs explored ---- *)
ImageNames == { image_files[1], image_files[2] }
ImageLists == UNION { [1..n -> ImageNames] : n \in 0..MaxImages }
\* clip.size: the dimensions of an image are a property of its file
ImageSize(image_file) ==
    IF image_file = image_files[1] THEN << 640, 480 >> ELSE << 40, 30 >>
Durations == (1..MaxDuration) \cup { duration_per_image }
Zooms == (-1)..MaxZoom

VARIABLES
    files,       \* the image_files argument of create_slideshow
    duration,    \* the duration_per_image argument (seconds)
    zoom,        \* the zoom_factor argument (numerator over ZoomDen)
    clips,       \* the clips built so far by the comprehension
    timeline,    \* <<>> or <<the concatenated clip>> (slideshow)
    output,      \* <<>> or <<the video file written>>
    stdout,      \* the lines printed
    pc,          \* position of the script
    events,      \* the library calls made so far, in order
    rand_calls,  \* number of random.uniform calls made so far
    frame        \* the last crop requested by a make_frame call

vars == << files, duration, zoom, clips, timeline, output, stdout, pc,
           events, rand_calls, frame >>

(* ---- pure helpers ---- *)

\* Python's int() on the rational n/d (d > 0): truncation toward zero.
int(n, d) == IF n >= 0 THEN n \div d ELSE -((-n) \div d)

\* random.uniform(a, b) = a + (b - a) * random(), numerator over CenterDen.
UniformWidthAsHigh(a, b, r) == a * RandSteps + b * r
uniform(a, b, r) == a * RandSteps + (b - a) * r

ScaleDen(d) == ZoomDen * TimeDen * d

\* line 25: scale as a numerator over ScaleDen(d).
ScaleNoZoomOut(z, d, tn) == ScaleDen(d) + z * tn
ScaleFullMagnitude(z, d, tn) ==
    IF 2 * tn < TimeDen * d
    THEN ScaleDen(d) + 2 * z * tn
    ELSE ScaleDen(d) + 2 * z * (TimeDen * d - tn)
scale(z, d, tn) ==
    IF 2 * tn < TimeDen * d
    THEN ScaleDen(d) + z * tn
    ELSE ScaleDen(d) + z * (TimeDen * d - tn)

\* ImageClip(image_file, duration=duration): the base clip.
ImageClipNoDuration(image_file, d, size) ==
    [ image |-> image_file, duration |-> 0, size |-> size ]
ImageClip(image_file, d, size) ==
    [ image |-> image_file, duration |-> d, size |-> size ]

\* create_zoom_effect: the clip returned by clip.fl(make_frame), with the
\* values make_frame closes over.
create_zoom_effect(image_file, d, z, rx, ry) ==
    LET size == ImageSize(image_file) IN
    [ clip |-> ImageClip(image_file, d, size),
      duration |-> d,
      zoom_factor |-> z,
      width |-> size[1],
      height |-> size[2],
      zoom_x |-> uniform(UniformLo, UniformHi, rx) * size[1],
      zoom_y |-> uniform(UniformLo, UniformHi, ry) * size[2] ]

\* make_frame(t): the crop requested of the base clip at time tn/TimeDen.
make_frame(i, c, tn) ==
    LET s == scale(c.zoom_factor, c.duration, tn) IN
    [ clip |-> i,
      t |-> tn,
      scale |-> s,
      x_center |-> c.zoom_x,
      y_center |-> c.zoom_y,
      new_width |-> int(c.width * s, ScaleDen(c.duration)),
      new_height |-> int(c.height * s, ScaleDen(c.duration)) ]

NoFrame ==
    [ clip |-> 0, t |-> 0, scale |-> 0, x_center |-> 0, y_center |-> 0,
      new_width |-> 0, new_height |-> 0 ]

\* the sequence the comprehension iterates over: its image_files parameter
IterSourceGlobal(fs) == image_files
IterSource(fs) == fs

\* the comprehension collects the clips in iteration order
AppendClipFront(cs, c) == << c >> \o cs
AppendClip(cs, c) == Append(cs, c)

RECURSIVE SumDurations(_)
SumDurations(cs) ==
    IF cs = << >> THEN 0 ELSE Head(cs).duration + SumDurations(Tail(cs))

\* concatenate_videoclips(clips, method="compose"): the clips in the order
\* given, lasting the sum of their durations.
concatenate_videoclips(cs) ==
    [ clips |-> cs,
      duration |-> SumDurations([ i \in 1..Len(cs) |-> cs[i].clip ]) ]

\* no try/except anywhere: an exception raised by a library call ends the run
SwallowException(next) == next
Uncaught(next) == "failed"

Ticks(d) == 0..(TimeDen * d)

(* ---- initial states ---- *)

\* the script as written: the list is the user's to edit, the other
\* arguments are the module-level parameters (line 43)
Init ==
    /\ files \in ImageLists
    /\ duration = duration_per_image
    /\ zoom = zoom_factor
    /\ clips = << >>
    /\ timeline = << >>
    /\ output = << >>
    /\ stdout = << >>
    /\ pc = "building"
    /\ events = << >>
    /\ rand_calls = 0
    /\ frame = NoFrame

\* create_zoom_effect as a function of its arguments: one image, any
\* duration and zoom magnitude
InitZoom ==
    /\ files \in [1..1 -> ImageNames]
    /\ duration \in Durations
    /\ zoom \in Zooms
    /\ clips = << >>
    /\ timeline = << >>
    /\ output = << >>
    /\ stdout = << >>
    /\ pc = "building"
    /\ events = << >>
    /\ rand_calls = 0
    /\ frame = NoFrame

(* ---- actions ---- *)

\* lines 36-39, one iteration: create_zoom_effect(image, ...) returns a clip
CreateZoomEffect ==
    /\ pc = "building"
    /\ Len(clips) < Len(IterSource(files))
    /\ \E rx \in 0..RandSteps, ry \in 0..RandSteps :
         clips' = AppendClip(clips,
                    create_zoom_effect(IterSource(files)[Len(clips) + 1],
                                       duration, zoom, rx, ry))
    /\ rand_calls' = rand_calls + 2
    /\ events' = Append(events, "clip")
    /\ UNCHANGED << files, duration, zoom, timeline, output, stdout, pc, frame >>

\* lines 16, 33: ImageClip (missing or unreadable image) or clip.fl raises
CreateZoomEffectFails ==
    /\ pc = "building"
    /\ Len(clips) < Len(IterSource(files))
    /\ pc' = Uncaught("building")
    /\ events' = Append(events, "clip_failed")
    /\ UNCHANGED << files, duration, zoom, clips, timeline, output, stdout,
                    rand_calls, frame >>

\* line 40: the comprehension is finished, concatenate_videoclips returns
Concatenate ==
    /\ pc = "building"
    /\ Len(clips) >= Len(IterSource(files))
    /\ timeline' = << concatenate_videoclips(clips) >>
    /\ pc' = "assembled"
    /\ events' = Append(events, "concat")
    /\ UNCHANGED << files, duration, zoom, clips, output, stdout, rand_calls,
                    frame >>

\* line 40: concatenate_videoclips raises (the library's behaviour on an
\* empty list is one of the two outcomes, this one or Concatenate)
ConcatenateFails ==
    /\ pc = "building"
    /\ Len(clips) >= Len(IterSource(files))
    /\ pc' = Uncaught("assembled")
    /\ events' = Append(events, "concat_failed")
    /\ UNCHANGED << files, duration, zoom, clips, timeline, output, stdout,
                    rand_calls, frame >>

\* line 44: write_videofile is entered
WriteVideofile ==
    /\ pc = "assembled"
    /\ pc' = "encoding"
    /\ events' = Append(events, "encode")
    /\ UNCHANGED << files, duration, zoom, clips, timeline, output, stdout,
                    rand_calls, frame >>

\* lines 24-31: the library asks clip i for its frame at tn/TimeDen
RenderFrameRedraw(i, tn) ==
    /\ pc \in { "building", "assembled", "encoding" }
    /\ i \in 1..Len(clips)
    /\ tn \in Ticks(clips[i].duration)
    /\ \E rx \in 0..RandSteps, ry \in 0..RandSteps :
         LET c == [ clips[i] EXCEPT
                      !.zoom_x = uniform(UniformLo, UniformHi, rx) * clips[i].width,
                      !.zoom_y = uniform(UniformLo, UniformHi, ry) * clips[i].height ]
         IN /\ clips' = [ clips EXCEPT ![i] = c ]
            /\ frame' = make_frame(i, c, tn)
    /\ rand_calls' = rand_calls + 2
    /\ UNCHANGED << files, duration, zoom, timeline, output, stdout, pc, events >>
RenderFrame(i, tn) ==
    /\ pc \in { "building", "assembled", "encoding" }
    /\ i \in 1..Len(clips)
    /\ tn \in Ticks(clips[i].duration)
    /\ frame' = make_frame(i, clips[i], tn)
    /\ UNCHANGED << files, duration, zoom, clips, timeline, output, stdout, pc,
                    events, rand_calls >>

\* line 44: write_videofile asks for the frames one after the other, clip by
\* clip and in increasing t, the end of a clip excluded
EncoderNext(i, tn) ==
    IF frame.clip = 0 \/ pc # "encoding" THEN i = 1 /\ tn = 0
    ELSE IF frame.t + 1 < TimeDen * clips[frame.clip].duration
         THEN i = frame.clip /\ tn = frame.t + 1
         ELSE i = frame.clip + 1 /\ tn = 0

AllFramesEncoded ==
    IF clips = << >> THEN TRUE
    ELSE /\ frame.clip = Len(clips)
         /\ frame.t + 1 >= TimeDen * clips[Len(clips)].duration

EncodeFrame ==
    /\ pc = "encoding"
    /\ \E i \in 1..Len(clips), tn \in Ticks(duration) :
         EncoderNext(i, tn) /\ RenderFrame(i, tn)

\* line 44: write_videofile returns, the file is written
WriteVideofileDone ==
    /\ pc = "encoding"
    /\ AllFramesEncoded
    /\ output' = << [ path |-> output_video, fps |-> fps, codec |-> codec,
                      duration |-> timeline[1].duration ] >>
    /\ pc' = "written"
    /\ UNCHANGED << files, duration, zoom, clips, timeline, stdout, events,
                    rand_calls, frame >>

\* line 44: write_videofile raises (encoder failure, disk full, a frame
\* that cannot be rendered)
WriteVideofileFails ==
    /\ pc = "encoding"
    /\ pc' = Uncaught("written")
    /\ events' = Append(events, "encode_failed")
    /\ UNCHANGED << files, duration, zoom, clips, timeline, output, stdout,
                    rand_calls, frame >>

\* line 46
PrintSuccess ==
    /\ pc = "written"
    /\ stdout' = Append(stdout, "Slideshow video created and saved as apl.mp4")
    /\ pc' = "done"
    /\ events' = Append(events, "print")
    /\ UNCHANGED << files, duration, zoom, clips, timeline, output,
                    rand_calls, frame >>

Next ==
    \/ CreateZoomEffect
    \/ CreateZoomEffectFails
    \/ Concatenate
    \/ ConcatenateFails
    \/ WriteVideofile
    \/ EncodeFrame
    \/ WriteVideofileDone
    \/ WriteVideofileFails
    \/ PrintSuccess

\* create_zoom_effect on its own: the clip is built, then make_frame is
\* called for any t, in any order
NextZoom ==
    \/ CreateZoomEffect
    \/ CreateZoomEffectFails
    \/ \E i \in 1..Len(clips), tn \in Ticks(duration) : RenderFrame(i, tn)

Spec == Init /\ [][Next]_vars
SpecZoom == InitZoom /\ [][NextZoom]_vars

(* ---- properties ---- *)

Rendered == frame.clip # 0
FrameClip == clips[frame.clip]
Failures == { "clip_failed", "concat_failed", "encode_failed" }

\* C1: for every duration D > 0 and zoom magnitude Z, the scale computed by
\* make_frame is exactly 1 at t = 0 and at t = D.
C1_ScaleOneAtBoundaries ==
    (Rendered /\ frame.t \in { 0, TimeDen * duration })
        => frame.scale = ScaleDen(duration)

C1_Witness ==
    /\ Rendered
    /\ zoom # 0
    /\ frame.t = TimeDen * duration
    /\ frame.scale = ScaleDen(duration)

\* C2 (as stated): at the midpoint t = D/2 the scale equals 1 + Z, and no
\* other t in [0, D] gives a larger scale.
C2_MidpointScaleIsOnePlusZ ==
    (Rendered /\ zoom >= 0 /\ 2 * frame.t = TimeDen * duration)
        => /\ frame.scale * ZoomDen = ScaleDen(duration) * (ZoomDen + zoom)
           /\ \A tn \in Ticks(duration) :
                scale(zoom, duration, tn) <= frame.scale

\* C3 (as stated): for Z > 0 the crop's width and height are non-increasing
\* in t on [0, D/2], non-decreasing on [D/2, D], and W x H at t = D.
C3_CropShrinksThenGrows ==
    (Rendered /\ zoom > 0)
        => /\ \A tn \in Ticks(duration) :
                LET other == make_frame(frame.clip, FrameClip, tn) IN
                /\ (tn <= frame.t /\ 2 * frame.t <= TimeDen * duration)
                      => /\ other.new_width >= frame.new_width
                         /\ other.new_height >= frame.new_height
                /\ (tn <= frame.t /\ 2 * tn >= TimeDen * duration)
                      => /\ other.new_width <= frame.new_width
                         /\ other.new_height <= frame.new_height
           /\ frame.t = TimeDen * duration
                => /\ frame.new_width = FrameClip.width
                   /\ frame.new_height = FrameClip.height

\* C4: the zoom center of every clip satisfies 0.3*W <= zoom_x <= 0.7*W and
\* 0.3*H <= zoom_y <= 0.7*H, whatever the random draws.
C4_ZoomCenterInMiddle ==
    \A i \in 1..Len(clips) :
        /\ 3 * clips[i].width * CenterDen <= 10 * clips[i].zoom_x
        /\ 10 * clips[i].zoom_x <= 7 * clips[i].width * CenterDen
        /\ 3 * clips[i].height * CenterDen <= 10 * clips[i].zoom_y
        /\ 10 * clips[i].zoom_y <= 7 * clips[i].height * CenterDen

C4_Witness ==
    \E i \in 1..Len(clips) :
        /\ 10 * clips[i].zoom_x > 3 * clips[i].width * CenterDen
        /\ 10 * clips[i].zoom_y = 7 * clips[i].height * CenterDen

\* C5: the zoom center is drawn once, in create_zoom_effect (two uniform
\* draws per clip built); every later make_frame call uses that center and
\* leaves it, the image dimensions and the base clip unchanged.
C5_CenterFixedPerClip ==
    /\ [](rand_calls = 2 * Len(clips))
    /\ [](Rendered => /\ frame.x_center = FrameClip.zoom_x
                      /\ frame.y_center = FrameClip.zoom_y)
    /\ [][\A i \in 1..Len(clips) :
            i <= Len(clips') /\ clips'[i] = clips[i]]_vars

C5_Witness ==
    /\ Rendered
    /\ frame.t > 0
    /\ rand_calls = 2
    /\ frame.x_center = FrameClip.zoom_x

\* C6: one clip per entry of image_files, handed to the concatenation in
\* input order: the i-th clip of the timeline is built from the i-th image.
C6_ClipsInInputOrder ==
    /\ Len(clips) <= Len(files)
    /\ \A i \in 1..Len(clips) : clips[i].clip.image = files[i]
    /\ timeline # << >>
         => /\ Len(timeline[1].clips) = Len(files)
            /\ \A i \in 1..Len(files) :
                 /\ timeline[1].clips[i] = clips[i]
                 /\ timeline[1].clips[i].clip.image = files[i]

C6_Witness ==
    /\ timeline # << >>
    /\ Len(files) >= 2
    /\ files[1] # files[2]

\* C7: every clip lasts duration_per_image and the timeline lasts
\* len(image_files) * duration_per_image; 12 * 5 = 60 seconds for the
\* hard-coded parameters.
C7_TotalDuration ==
    /\ Len(image_files) * duration_per_image = 60
    /\ \A i \in 1..Len(clips) :
         /\ clips[i].clip.duration = duration_per_image
         /\ clips[i].duration = duration_per_image
    /\ timeline # << >>
         => timeline[1].duration = Len(files) * duration_per_image

C7_Witness ==
    /\ timeline # << >>
    /\ Len(files) >= 2
    /\ timeline[1].duration = 2 * duration_per_image

\* C8: with an empty image list the assembly fails (nothing written, nothing
\* printed) or yields an empty timeline; never a non-empty one.
C8_EmptyListFailsOrEmpty ==
    files = << >>
        => /\ clips = << >>
           /\ timeline # << >>
                => (timeline[1].clips = << >> /\ timeline[1].duration = 0)
           /\ "concat_failed" \in { events[j] : j \in 1..Len(events) }
                => (output = << >> /\ stdout = << >> /\ timeline = << >>)

C8_Witness ==
    /\ files = << >>
    /\ timeline # << >>
    /\ timeline[1].clips = << >>

\* C9: the run is: a clip per image in list order, then the concatenation,
\* then one encoder call, then the success message.  A failure ends the run
\* where it happens: no encoder call after a failed load, and the message
\* only after the encoder has written the file.
C9_EventOrder ==
    \A j \in 1..Len(events) :
        /\ events[j] \in { "clip", "clip_failed" }
             => /\ j <= Len(files)
                /\ \A k \in 1..(j - 1) : events[k] = "clip"
        /\ events[j] \in { "concat", "concat_failed" }
             => /\ j = Len(files) + 1
                /\ Len(clips) = Len(files)
        /\ events[j] = "encode"
             => (j = Len(files) + 2 /\ events[j - 1] = "concat")
        /\ events[j] \in { "encode_failed", "print" }
             => (j = Len(files) + 3 /\ events[j - 1] = "encode")
        /\ events[j] = "print" => output # << >>
        /\ events[j] \in Failures => (j = Len(events) /\ pc = "failed")

C9_SequentialNoRetry ==
    /\ [](C9_EventOrder)
    /\ [](stdout # << >> => (output # << >> /\ pc = "done"))
    /\ [](pc = "failed" => (events # << >> /\ stdout = << >>))
    /\ [][pc # "failed"]_vars

C9_Witness ==
    /\ pc = "done"
    /\ Len(files) >= 2
    /\ events[Len(events)] = "print"

====
